---- MODULE Spec2Model ----
(***************************************************************************)
(* A model of EndBASIC's storage layer and of its cloud client commands:   *)
(*   - the in-memory drive (std/src/storage/mem.rs), a HashMap from file   *)
(*     names to file contents behind the Drive trait;                      *)
(*   - the LOGIN command (client/src/cmds.rs), an async command that       *)
(*     authenticates against the service, shows the MOTD, registers the    *)
(*     cloud scheme and mounts the CLOUD drive;                            *)
(*   - the SHARE command (client/src/cmds.rs): parse_acl, which turns one  *)
(*     ACL change such as "user+r" into a reader of the additive or of the *)
(*     subtractive FileAcls, and exec, which shows or updates the ACLs of  *)
(*     a file.                                                             *)
(* Strings that the code orders, measures or splits (file names, file     *)
(* contents, ACL changes, readers) are sequences of bytes; strings that    *)
(* are only compared or concatenated (login names, messages, URIs) are     *)
(* TLA+ strings.                                                           *)
(***************************************************************************)
EXTENDS Integers, Sequences, FiniteSets, TLC

(***************************************************************************)
(* Inputs of the in-memory drive.                                          *)
(***************************************************************************)

\* File names, as UTF-8 byte strings: "A", "AB", "B".
Names == { <<65>>, <<65, 66>>, <<66>> }

\* File contents, as UTF-8 byte strings: "", "h", and a two-byte character.
Contents == { <<>>, <<104>>, <<195, 169>> }

VARIABLES
    programs,   \* InMemoryDrive.programs: the HashMap<String, String>
    ret,        \* the last Drive operation: its arguments, its result, and the
                \* map (before) and the history (live) it was invoked on
    lastPut     \* history: per name, the content of its latest put that no
                \* successful delete of the name followed, or Absent

\* The values of lastPut: no live put of the name, or a live put of content c.
Absent == [live |-> FALSE, content |-> <<>>]

Live(c) == [live |-> TRUE, content |-> c]

VARIABLES
    schemes,    \* Storage: the scheme registry, scheme name -> factory
    mounts,     \* Storage: the mount table, drive name -> target URI
    pc,         \* where the LOGIN command is: "idle", a suspension point, "done", "cancelled"
    args,       \* the arguments of the running LOGIN: [(Option<Expr>, ArgSep)]
    username,   \* exec's local username, once evaluated
    password,   \* exec's local password, once evaluated or read
    out,        \* what the console received during the running LOGIN
    result,     \* the CommandResult of the LOGIN that returned
    cmd         \* history of the running LOGIN: the storage it started on, the
                \* service's answer, its console reads and its call of the service,
                \* and how the previous LOGIN of the session ended

VARIABLES
    add,        \* parse_acl: the additive FileAcls, as its set of readers
    remove,     \* parse_acl: the subtractive FileAcls, as its set of readers
    acl         \* the last parse_acl call: its token, its result, and the two
                \* FileAcls it was invoked on

VARIABLES
    files,       \* the entries of the drive mounted as MEMORY, with the readers
                 \* its ACL hook persists: entry name -> [content, readers]
    sharePc,     \* where the SHARE command is: "idle", an await, "done", "panicked"
    shareArgs,   \* the arguments of the running SHARE that exec has looked at
    filename,    \* exec's local filename, once evaluated
    addAcls,     \* exec's local add: the readers of the additive FileAcls
    removeAcls,  \* exec's local remove: the readers of the subtractive FileAcls
    shareOut,    \* what the console received during the running SHARE
    shareResult, \* the CommandResult of the SHARE that returned
    share        \* history of the running SHARE: the files it started on, its
                 \* calls of get_acls and update_acls, what get_acls returned,
                 \* the print that failed; and, of the session, the ACL
                 \* changes made so far (only)

memVars == <<programs, ret, lastPut>>

aclVars == <<add, remove, acl>>

VARIABLES
    sto          \* the last call of Storage made directly (register_scheme,
                 \* mount, or an operation on a path): its arguments, its
                 \* result, the state it was invoked on, and per drive name the
                 \* target of the latest mount that succeeded (latest)

shareVars == <<files, sharePc, shareArgs, filename, addAcls, removeAcls, shareOut,
               shareResult, share>>

stoVars == <<sto>>

restVars == <<aclVars, shareVars, stoVars>>

loginVars == <<schemes, mounts, pc, args, username, password, out, result, cmd>>

vars == <<programs, ret, lastPut, schemes, mounts, pc, args, username, password, out, result, cmd,
          restVars>>

(***************************************************************************)
(* io::Result values of the Drive trait.                                   *)
(***************************************************************************)

\* Ok(()) of delete and put.
OkUnit == [kind |-> "Ok", msg |-> "", content |-> <<>>, entries |-> <<>>]

\* Ok(content) of get.
OkContent(c) == [kind |-> "Ok", msg |-> "", content |-> c, entries |-> <<>>]

\* Ok(entries) of enumerate.
OkEntries(es) == [kind |-> "Ok", msg |-> "", content |-> <<>>, entries |-> es]

\* Err(io::Error::new(io::ErrorKind::NotFound, "Entry not found")).
NotFoundErr == [kind |-> "NotFound", msg |-> "Entry not found", content |-> <<>>, entries |-> <<>>]

(***************************************************************************)
(* Ordering of String keys (byte-wise lexicographic, as Ord for String).   *)
(***************************************************************************)

RECURSIVE StrLess(_, _)
StrLess(a, b) ==
    IF b = <<>> THEN FALSE
    ELSE IF a = <<>> THEN TRUE
    ELSE IF Head(a) # Head(b) THEN Head(a) < Head(b)
    ELSE StrLess(Tail(a), Tail(b))

(***************************************************************************)
(* HashMap<String, String>, as a function on the set of its keys.          *)
(***************************************************************************)

EmptyMap == << >>

\* HashMap::insert: adds the key, or replaces the value of a key it holds.
HashMapInsert(m, k, v) == [x \in (DOMAIN m) \cup {k} |-> IF x = k THEN v ELSE m[x]]

\* HashMap::remove: the map without the key.
HashMapRemove(m, k) == [x \in (DOMAIN m) \ {k} |-> m[x]]

\* The orders in which an iteration may visit the keys of a HashMap.
IterOrders(m) ==
    { o \in [1..Cardinality(DOMAIN m) -> DOMAIN m] :
        \A i, j \in DOMAIN o : i # j => o[i] # o[j] }

(***************************************************************************)
(* BTreeMap<String, Metadata>, as the sequence of its entries in key order.*)
(***************************************************************************)

\* The fixed date of every entry of an in-memory drive.
MemDate == 1588757875

\* Metadata { date, length: contents.len() as u64 }: the byte length; the cast
\* from usize to u64 widens, so it changes no value.
Metadata(contents) == [date |-> MemDate, length |-> Len(contents)]

\* BTreeMap::insert: replaces the entry of an equal key, or inserts in order.
RECURSIVE BTreeInsert(_, _, _)
BTreeInsert(es, k, v) ==
    IF es = <<>> THEN << [name |-> k, meta |-> v] >>
    ELSE IF Head(es).name = k THEN << [name |-> k, meta |-> v] >> \o Tail(es)
    ELSE IF StrLess(k, Head(es).name) THEN << [name |-> k, meta |-> v] >> \o es
    ELSE << Head(es) >> \o BTreeInsert(Tail(es), k, v)

\* The loop of enumerate over the map, visiting its keys in the order o.
RECURSIVE EnumerateLoop(_, _, _)
EnumerateLoop(m, o, entries) ==
    IF o = <<>> THEN entries
    ELSE EnumerateLoop(m, Tail(o), BTreeInsert(entries, Head(o), Metadata(m[Head(o)])))

(***************************************************************************)
(* impl Drive for InMemoryDrive: each operation as (result, map after).    *)
(***************************************************************************)

\* delete, as a bug would write it: reports success for a missing entry.
DeleteResultLenient(m, name) == OkUnit

DeleteResult(m, name) == IF name \in DOMAIN m THEN OkUnit ELSE NotFoundErr

\* delete, as a bug would write it: removing an entry empties the drive.
DeleteMapClear(m, name) == IF name \in DOMAIN m THEN EmptyMap ELSE m

DeleteMap(m, name) == HashMapRemove(m, name)

\* get, as a bug would write it: an empty file reads as missing.
GetResultEmptyMissing(m, name) ==
    IF name \in DOMAIN m /\ m[name] # <<>> THEN OkContent(m[name]) ELSE NotFoundErr

GetResult(m, name) == IF name \in DOMAIN m THEN OkContent(m[name]) ELSE NotFoundErr

\* put, as a bug would write it: create-exclusive, an existing entry is kept.
PutMapKeepExisting(m, name, content) ==
    IF name \in DOMAIN m THEN m ELSE HashMapInsert(m, name, content)

PutMap(m, name, content) == HashMapInsert(m, name, content)

PutResult(m, name, content) == OkUnit

\* enumerate, as a bug would write it: the entries in iteration order.
EnumerateResultUnsorted(m, o) ==
    OkEntries([i \in DOMAIN o |-> [name |-> o[i], meta |-> Metadata(m[o[i]])]])

EnumerateResult(m, o) == OkEntries(EnumerateLoop(m, o, <<>>))

(***************************************************************************)
(* The drive's state machine: a caller invoking the operations.            *)
(***************************************************************************)

NoCall ==
    [op |-> "none", name |-> <<>>, content |-> <<>>, res |-> OkUnit,
     before |-> EmptyMap, live |-> [n \in Names |-> Absent]]

InitMem ==
    /\ programs = EmptyMap         \* #[derive(Default)]
    /\ ret = NoCall
    /\ lastPut = [n \in Names |-> Absent]

Delete(name) ==
    /\ UNCHANGED <<loginVars, restVars>>
    /\ programs' = DeleteMap(programs, name)
    /\ ret' = [op |-> "delete", name |-> name, content |-> <<>>,
               res |-> DeleteResult(programs, name), before |-> programs, live |-> lastPut]
    /\ lastPut' = [lastPut EXCEPT ![name] = Absent]

Enumerate(o) ==
    /\ UNCHANGED <<loginVars, restVars>>
    /\ programs' = programs
    /\ ret' = [op |-> "enumerate", name |-> <<>>, content |-> <<>>,
               res |-> EnumerateResult(programs, o), before |-> programs, live |-> lastPut]
    /\ lastPut' = lastPut

Get(name) ==
    /\ UNCHANGED <<loginVars, restVars>>
    /\ programs' = programs
    /\ ret' = [op |-> "get", name |-> name, content |-> <<>>,
               res |-> GetResult(programs, name), before |-> programs, live |-> lastPut]
    /\ lastPut' = lastPut

Put(name, content) ==
    /\ UNCHANGED <<loginVars, restVars>>
    /\ programs' = PutMap(programs, name, content)
    /\ ret' = [op |-> "put", name |-> name, content |-> content,
               res |-> PutResult(programs, name, content), before |-> programs, live |-> lastPut]
    /\ lastPut' = [lastPut EXCEPT ![name] = Live(content)]

DeleteStep == \E name \in Names : Delete(name)

EnumerateStep == \E o \in IterOrders(programs) : Enumerate(o)

GetStep == \E name \in Names : Get(name)

PutStep == \E name \in Names, content \in Contents : Put(name, content)

NextMem == DeleteStep \/ EnumerateStep \/ GetStep \/ PutStep

(***************************************************************************)
(* Inputs of the LOGIN command.                                            *)
(***************************************************************************)

\* The most arguments a LOGIN call is given.
MaxArgs == 2

\* The text values an argument evaluates to, or a password line read.
Texts == { "alice", "hunter2" }

\* Expressions, by what their evaluation gives: a text, a value that is not
\* a text, or an evaluation error.  NoExpr is the None of Option<Expr>.
Exprs ==
    { [kind |-> "text", text |-> t] : t \in Texts }
        \cup { [kind |-> "integer", text |-> ""], [kind |-> "error", text |-> ""] }

NoExpr == [kind |-> "none", text |-> ""]

\* A list of three arguments, as in LOGIN "alice", "hunter2", "alice".
ThreeArgs ==
    << [expr |-> [kind |-> "text", text |-> "alice"], sep |-> "Long"],
       [expr |-> [kind |-> "text", text |-> "hunter2"], sep |-> "Long"],
       [expr |-> [kind |-> "text", text |-> "alice"], sep |-> "End"] >>

\* Argument lists as the parser builds them: the last separator is End, and
\* the others are Long (a comma) or Short (a semicolon).  The lists have up to
\* MaxArgs arguments, and ThreeArgs is one of them whatever MaxArgs is.
ArgLists ==
    UNION { { a \in [1..n -> [expr : Exprs \cup {NoExpr}, sep : {"End", "Long", "Short"}]] :
                \A i \in 1..n : (a[i].sep = "End") <=> (i = n) } : n \in 0..MaxArgs }
        \cup { ThreeArgs }

\* The access tokens and the messages of the day the service may answer with.
Tokens == { "token-1", "token-2" }

Motds == { <<>>, <<"first line">>, <<"first line", "second line">> }

\* The messages the service may reject a login with.
ServiceErrors == { "Unknown user", "Invalid password" }

(***************************************************************************)
(* CommandResult values.                                                   *)
(***************************************************************************)

CmdOk == [kind |-> "Ok", msg |-> ""]

ArgumentError(m) == [kind |-> "ArgumentError", msg |-> m]

InternalError(m) == [kind |-> "InternalError", msg |-> m]

\* The conversion, as a bug would write it: the message replaced by a fixed one.
FromIoErrorGeneric(m) == [kind |-> "IoError", msg |-> "I/O error"]

\* The ? operator on an io::Result: CallError::from(io::Error) keeps the message.
FromIoError(m) == [kind |-> "IoError", msg |-> m]

\* The ? operator on the result of Expr::eval.
EvalError == [kind |-> "EvalError", msg |-> "evaluation failed"]

\* The result slot while no LOGIN has returned, and that of a dropped future.
NoResult == [kind |-> "None", msg |-> ""]

Cancelled == [kind |-> "Cancelled", msg |-> ""]

LoginTwiceMsg == "Support for calling LOGIN twice in the same session is not implemented"

(***************************************************************************)
(* Storage: the scheme registry and the mount table.                       *)
(***************************************************************************)

\* The factory of the memory scheme and the cloud factory LOGIN builds.
MemoryFactory == [kind |-> "memory", token |-> ""]

CloudDriveFactory(access_token) == [kind |-> "cloud", token |-> access_token]

\* Storage::default(): the memory scheme, and the MEMORY drive mounted on it.
DefaultSchemes == [s \in {"memory"} |-> MemoryFactory]

DefaultMounts == [d \in {"MEMORY"} |-> "memory://"]

\* register_scheme: binds the scheme to the factory, replacing a prior binding.
RegisterScheme(reg, scheme, factory) ==
    [s \in (DOMAIN reg) \cup {scheme} |-> IF s = scheme THEN factory ELSE reg[s]]

\* The lookup of a scheme, as a bug would write it: every scheme is known.
HasSchemeAny(reg, scheme) == TRUE

HasScheme(reg, scheme) == scheme \in DOMAIN reg

\* The (scheme, authority) readings of a URI of the form scheme://authority.
UriSchemes == { "memory", "cloud", "file" }

ParseUri(uri) ==
    { p \in UriSchemes \X (Texts \cup {""}) : uri = p[1] \o "://" \o p[2] }

MountOk(table) == [ok |-> TRUE, msg |-> "", mounts |-> table]

MountErr(m, table) == [ok |-> FALSE, msg |-> m, mounts |-> table]

\* mount, as a bug would write it: a drive name already in use keeps its
\* prior mount.
MountKeepExisting(reg, table, drive_name, uri, built) ==
    IF ParseUri(uri) = {} THEN MountErr("Invalid mount target", table)
    ELSE LET scheme == (CHOOSE p \in ParseUri(uri) : TRUE)[1] IN
         IF ~HasScheme(reg, scheme) THEN MountErr("Unknown mount scheme", table)
         ELSE IF ~built THEN MountErr("Cannot create drive", table)
         ELSE IF drive_name \in DOMAIN table THEN MountOk(table)
         ELSE MountOk([d \in (DOMAIN table) \cup {drive_name} |->
                          IF d = drive_name THEN uri ELSE table[d]])

\* mount: resolves the scheme of the target, has its factory build the drive
\* (built says whether the construction succeeds) and binds the drive name to
\* it, replacing a prior mount of that name.  A failed mount binds nothing.
Mount(reg, table, drive_name, uri, built) ==
    IF ParseUri(uri) = {} THEN MountErr("Invalid mount target", table)
    ELSE LET scheme == (CHOOSE p \in ParseUri(uri) : TRUE)[1] IN
         IF ~HasScheme(reg, scheme) THEN MountErr("Unknown mount scheme", table)
         ELSE IF ~built THEN MountErr("Cannot create drive", table)
         ELSE MountOk([d \in (DOMAIN table) \cup {drive_name} |->
                          IF d = drive_name THEN uri ELSE table[d]])

\* mounted(): drive name -> target.
Mounted(table) == table

(***************************************************************************)
(* The console, as the sequence of what it receives.                       *)
(***************************************************************************)

ConsolePrint(t) == [kind |-> "Print", text |-> t]

ConsoleWrite(t) == [kind |-> "Write", text |-> t]

ConsoleSyncNow == [kind |-> "SyncNow", text |-> ""]

ConsoleErrorMsg == "console error"

\* refill_and_print(console, line, ""): the line, printed.
RefillAndPrint(line) == << ConsolePrint(line) >>

\* read_line_secure(console, prompt) of the line typed: the prompt, a sync,
\* one mask character per character typed, and the end of the line.
ReadLineSecureOutput(prompt, line) ==
    << ConsoleWrite(prompt), ConsoleSyncNow >>
        \o [i \in 1..Len(line) |-> ConsoleWrite("*")]
        \o << ConsolePrint("") >>

(***************************************************************************)
(* LoginCommand (client/src/cmds.rs).                                      *)
(***************************************************************************)

MotdBegin == "----- BEGIN SERVER MOTD -----"

MotdEnd == "-----  END SERVER MOTD  -----"

\* for line in response.motd { refill_and_print(console, &line, "")?; }
RECURSIVE MotdLines(_)
MotdLines(motd) ==
    IF motd = <<>> THEN <<>> ELSE RefillAndPrint(Head(motd)) \o MotdLines(Tail(motd))

\* The MOTD block, as a bug would write it: no check for an empty MOTD.
MotdPrintsUnchecked(motd) ==
    << ConsolePrint(""), ConsolePrint(MotdBegin) >>
        \o MotdLines(motd)
        \o << ConsolePrint(MotdEnd), ConsolePrint("") >>

\* What do_login prints for the MOTD of the response, in order.
MotdPrints(motd) ==
    IF motd # <<>>
    THEN << ConsolePrint(""), ConsolePrint(MotdBegin) >>
            \o MotdLines(motd)
            \o << ConsolePrint(MotdEnd), ConsolePrint("") >>
    ELSE <<>>

\* The target, as a bug would write it: the user name left out.
CloudTargetNoUser(user) == "cloud://"

\* format!("cloud://{}", username)
CloudTarget(user) == "cloud://" \o user

\* The guard of exec, as a bug would write it: a login is taken to have been
\* made when the CLOUD drive is mounted.
AlreadyLoggedInByMount(reg) == "CLOUD" \in DOMAIN mounts

\* The guard of exec, as a bug would write it: no check at all.
AlreadyLoggedInUnchecked(reg) == FALSE

\* self.storage.borrow().has_scheme("cloud")
AlreadyLoggedIn(reg) == HasScheme(reg, "cloud")

\* The arms of exec, as a bug would write them: the separator between the
\* username and the password is not looked at.
ArgShapeAnySeparator(a) ==
    IF Len(a) = 1 /\ a[1].expr # NoExpr /\ a[1].sep = "End" THEN "username"
    ELSE IF Len(a) = 2 /\ a[1].expr # NoExpr /\ a[2].expr # NoExpr THEN "username_password"
    ELSE "other"

\* The match on args: which of its arms an argument list takes.
ArgShape(a) ==
    IF Len(a) = 1 /\ a[1].expr # NoExpr /\ a[1].sep = "End" THEN "username"
    ELSE IF /\ Len(a) = 2
            /\ a[1].expr # NoExpr /\ a[1].sep = "Long"
            /\ a[2].expr # NoExpr /\ a[2].sep = "End" THEN "username_password"
    ELSE "other"

\* The service's answer to the running LOGIN, while there is none.
NoAuth == [kind |-> "none", msg |-> "", token |-> "", motd |-> <<>>]

\* The factory of the cloud scheme, while the session registered none.
NoFactory == [kind |-> "none", token |-> ""]

\* The arguments of service.login, while it has not been called.
NoCredentials == [username |-> "", password |-> ""]

\* The points where the future of exec may be suspended, and so dropped.
SuspensionPoints == { "eval_username", "eval_password", "read_password", "login" }

InitLogin ==
    /\ schemes = DefaultSchemes
    /\ mounts = DefaultMounts
    /\ pc = "idle"
    /\ args = <<>>
    /\ username = ""
    /\ password = ""
    /\ out = <<>>
    /\ result = NoResult
    /\ cmd = [schemes0 |-> DefaultSchemes, mounts0 |-> DefaultMounts, auth |-> NoAuth,
              prev |-> "none", everOk |-> FALSE, okTarget |-> "",
              reads |-> 0, line |-> "", called |-> FALSE, sent |-> NoCredentials,
              failAt |-> 0, built |-> TRUE, evals |-> 0, regs |-> 0,
              factory |-> NoFactory]

\* How the LOGIN that is over ended, for the history of the next one.
Outcome ==
    IF pc = "idle" THEN "none"
    ELSE IF pc = "cancelled" THEN "cancelled"
    ELSE IF result.kind = "Ok" THEN "ok"
    ELSE IF cmd.auth.kind = "rejected" THEN "rejected"
    ELSE "failed"

\* exec, up to its first await, as a bug would write it: the shape of the
\* arguments is matched before the check for a second login.
ExecShapeFirst(a) ==
    /\ pc \in { "idle", "done", "cancelled" }
    /\ UNCHANGED <<restVars, programs, ret, lastPut, schemes, mounts>>
    /\ args' = a
    /\ username' = ""
    /\ password' = ""
    /\ out' = <<>>
    /\ cmd' = [schemes0 |-> schemes, mounts0 |-> mounts, auth |-> NoAuth,
               prev |-> Outcome,
               everOk |-> cmd.everOk \/ Outcome = "ok",
               okTarget |-> IF Outcome = "ok" /\ "CLOUD" \in DOMAIN mounts
                            THEN mounts["CLOUD"] ELSE cmd.okTarget,
               reads |-> 0, line |-> "", called |-> FALSE, sent |-> NoCredentials,
               failAt |-> 0, built |-> TRUE, evals |-> 0, regs |-> cmd.regs,
               factory |-> cmd.factory]
    /\ IF ArgShape(a) = "other"
       THEN /\ pc' = "done"
            /\ result' = ArgumentError("LOGIN requires one or two arguments")
       ELSE IF AlreadyLoggedIn(schemes)
       THEN /\ pc' = "done"
            /\ result' = InternalError(LoginTwiceMsg)
       ELSE /\ pc' = "eval_username"
            /\ result' = NoResult

\* exec, up to its first await: the check for a second login and the match
\* on the shape of the arguments.
Exec(a) ==
    /\ pc \in { "idle", "done", "cancelled" }
    /\ UNCHANGED <<restVars, programs, ret, lastPut, schemes, mounts>>
    /\ args' = a
    /\ username' = ""
    /\ password' = ""
    /\ out' = <<>>
    /\ cmd' = [schemes0 |-> schemes, mounts0 |-> mounts, auth |-> NoAuth,
               prev |-> Outcome,
               everOk |-> cmd.everOk \/ Outcome = "ok",
               okTarget |-> IF Outcome = "ok" /\ "CLOUD" \in DOMAIN mounts
                            THEN mounts["CLOUD"] ELSE cmd.okTarget,
               reads |-> 0, line |-> "", called |-> FALSE, sent |-> NoCredentials,
               failAt |-> 0, built |-> TRUE, evals |-> 0, regs |-> cmd.regs,
               factory |-> cmd.factory]
    /\ IF AlreadyLoggedIn(schemes)
       THEN /\ pc' = "done"
            /\ result' = InternalError(LoginTwiceMsg)
       ELSE IF ArgShape(a) = "other"
       THEN /\ pc' = "done"
            /\ result' = ArgumentError("LOGIN requires one or two arguments")
       ELSE /\ pc' = "eval_username"
            /\ result' = NoResult

\* do_login up to its await of service.login, as a bug would write it: the
\* scheme is registered before the service has answered.
BeginDoLoginRegisterEarly ==
    /\ schemes' = RegisterScheme(schemes, "cloud", CloudDriveFactory(""))
    /\ mounts' = mounts

\* do_login up to its await of service.login: the storage is not touched.
BeginDoLogin == UNCHANGED <<schemes, mounts>>

\* Where exec goes after the username, as a bug would write it: the password
\* is always read from the console.
AfterUsernameAlwaysRead(a) == "read_password"

\* Where exec goes once the username is a text: to read_line_secure in the
\* arm of one argument, to the evaluation of the password in the arm of two.
AfterUsername(a) == IF ArgShape(a) = "username" THEN "read_password" ELSE "eval_password"

\* The password once the username is known, in history terms: the call of
\* service.login(username, password) that do_login makes first.
CallLogin(user, pass) == [cmd EXCEPT !.called = TRUE,
                                     !.sent = [username |-> user, password |-> pass]]

\* username.eval(...).await?, and the match on its value.
EvalUsername ==
    /\ pc = "eval_username"
    /\ UNCHANGED <<restVars, programs, ret, lastPut, schemes, mounts, args, password, out>>
    /\ cmd' = [cmd EXCEPT !.evals = @ + 1]
    /\ LET e == args[1].expr IN
       IF e.kind = "error"
       THEN /\ pc' = "done"
            /\ result' = EvalError
            /\ username' = username
       ELSE IF e.kind = "text"
       THEN /\ pc' = AfterUsername(args)
            /\ result' = result
            /\ username' = e.text
       ELSE /\ pc' = "done"
            /\ result' = ArgumentError("LOGIN requires a string as the username")
            /\ username' = username

\* password.eval(...).await?, the match on its value, and the call of do_login
\* up to its await.
EvalPassword ==
    /\ pc = "eval_password"
    /\ UNCHANGED <<restVars, programs, ret, lastPut, args, username, out>>
    /\ LET e == args[2].expr IN
       IF e.kind = "error"
       THEN /\ pc' = "done"
            /\ result' = EvalError
            /\ password' = password
            /\ cmd' = [cmd EXCEPT !.evals = @ + 1]
            /\ UNCHANGED <<schemes, mounts>>
       ELSE IF e.kind = "text"
       THEN /\ pc' = "login"
            /\ result' = result
            /\ password' = e.text
            /\ cmd' = [CallLogin(username, e.text) EXCEPT !.evals = @ + 1]
            /\ BeginDoLogin
       ELSE /\ pc' = "done"
            /\ result' = ArgumentError("LOGIN requires a string as the password")
            /\ password' = password
            /\ cmd' = [cmd EXCEPT !.evals = @ + 1]
            /\ UNCHANGED <<schemes, mounts>>

\* read_line_secure(console, "Password: ").await?, and the call of do_login up
\* to its await.  A failed read has written the prompt (prompted) or nothing.
ReadPassword ==
    /\ pc = "read_password"
    /\ UNCHANGED <<restVars, programs, ret, lastPut, args, username>>
    /\ \/ \E line \in Texts :
            /\ pc' = "login"
            /\ result' = result
            /\ password' = line
            /\ out' = out \o ReadLineSecureOutput("Password: ", line)
            /\ cmd' = [CallLogin(username, line) EXCEPT !.reads = @ + 1, !.line = line]
            /\ BeginDoLogin
       \/ \E prompted \in BOOLEAN :
            /\ pc' = "done"
            /\ result' = FromIoError(ConsoleErrorMsg)
            /\ password' = password
            /\ cmd' = [cmd EXCEPT !.reads = @ + 1]
            /\ out' = IF prompted THEN out \o << ConsoleWrite("Password: "), ConsoleSyncNow >>
                      ELSE out
            /\ UNCHANGED <<schemes, mounts>>

\* The console output, as a bug would write it: the response is traced,
\* access token included.
LoginOutputTraced(response, failAt) ==
    << ConsolePrint(response.access_token) >>
        \o (IF failAt > 0 THEN SubSeq(MotdPrints(response.motd), 1, failAt - 1)
            ELSE MotdPrints(response.motd))

\* What do_login sends to the console once the service accepted: the MOTD
\* prints up to the one that fails (failAt; 0: none does).
LoginOutput(response, failAt) ==
    IF failAt > 0 THEN SubSeq(MotdPrints(response.motd), 1, failAt - 1)
    ELSE MotdPrints(response.motd)

\* What do_login returns once the service accepted, on the registry reg and
\* the mount table.
LoginResult(reg, table, user, response, failAt, built) ==
    LET registered == RegisterScheme(reg, "cloud", CloudDriveFactory(response.access_token))
        mounted == Mount(registered, table, "CLOUD", CloudTarget(user), built)
    IN  IF failAt > 0 THEN FromIoError(ConsoleErrorMsg)
        ELSE IF mounted.ok THEN CmdOk ELSE FromIoError(mounted.msg)

\* do_login after the service accepted, as a bug would write it: the scheme
\* is registered and the drive mounted before the MOTD is printed.
DoLoginAcceptedRegisterFirst(response, failAt, built) ==
    LET registered == RegisterScheme(schemes, "cloud", CloudDriveFactory(response.access_token))
        mounted == Mount(registered, mounts, "CLOUD", CloudTarget(username), built)
    IN  /\ out' = out \o LoginOutput(response, failAt)
        /\ result' = LoginResult(schemes, mounts, username, response, failAt, built)
        /\ schemes' = registered
        /\ mounts' = mounted.mounts

\* do_login after the service accepted: the MOTD prints, of which the one at
\* failAt fails (0: none does), then register_scheme and mount, where built
\* says whether the factory builds the drive.
DoLoginAccepted(response, failAt, built) ==
    LET registered == RegisterScheme(schemes, "cloud", CloudDriveFactory(response.access_token))
        mounted == Mount(registered, mounts, "CLOUD", CloudTarget(username), built)
    IN  /\ out' = out \o LoginOutput(response, failAt)
        /\ result' = LoginResult(schemes, mounts, username, response, failAt, built)
        /\ IF failAt > 0
           THEN UNCHANGED <<schemes, mounts>>
           ELSE /\ schemes' = registered
                /\ mounts' = mounted.mounts

\* service.login(username, password).await?, and the rest of do_login.
Authenticate ==
    /\ pc = "login"
    /\ pc' = "done"
    /\ UNCHANGED <<restVars, programs, ret, lastPut, args, username, password>>
    /\ \/ \E m \in ServiceErrors :
            /\ cmd' = [cmd EXCEPT !.auth = [kind |-> "rejected", msg |-> m,
                                             token |-> "", motd |-> <<>>]]
            /\ result' = FromIoError(m)
            /\ UNCHANGED <<schemes, mounts, out>>
       \/ \E response \in [access_token : Tokens, motd : Motds] :
            \E failAt \in 0..Len(MotdPrints(response.motd)), built \in BOOLEAN :
                /\ cmd' = [cmd EXCEPT !.auth = [kind |-> "accepted", msg |-> "",
                                                 token |-> response.access_token,
                                                 motd |-> response.motd],
                                      !.failAt = failAt,
                                      !.built = built,
                                      !.regs = IF failAt > 0 \/ @ = 2 THEN @ ELSE @ + 1,
                                      !.factory =
                                          IF failAt = 0 /\ cmd.regs = 0
                                          THEN CloudDriveFactory(response.access_token)
                                          ELSE @]
                /\ DoLoginAccepted(response, failAt, built)

\* The future of exec is dropped at one of its awaits.
Cancel ==
    /\ pc \in SuspensionPoints
    /\ pc' = "cancelled"
    /\ result' = Cancelled
    /\ UNCHANGED <<restVars, programs, ret, lastPut, schemes, mounts, args, username, password, out, cmd>>

ExecStep == \E a \in ArgLists : Exec(a)

NextLogin == ExecStep \/ EvalUsername \/ EvalPassword \/ ReadPassword \/ Authenticate \/ Cancel

(***************************************************************************)
(* ShareCommand::parse_acl.  An ACL change and a reader are UTF-8 byte     *)
(* strings: parse_acl measures the change in bytes and splits it at a byte *)
(* index.                                                                  *)
(***************************************************************************)

\* The number of readers the two FileAcls hold together before parse_acl is
\* no longer called.
MaxReaders == 2

\* Characters, in UTF-8: x, X, +, -, r, R, e-acute (2 bytes), the euro sign
\* (3 bytes).
Chars == { <<120>>, <<88>>, <<43>>, <<45>>, <<114>>, <<82>>, <<195, 169>>, <<226, 130, 172>> }

\* The four changes parse_acl accepts after a username: +r, +R, -r, -R.
Changes == { <<43, 114>>, <<43, 82>>, <<45, 114>>, <<45, 82>> }

\* Every string of fewer than three characters.
ShortTokens == { <<>> } \cup Chars \cup { a \o b : a, b \in Chars }

\* Every one-character username followed by a change, and "xX+r".
WellFormedTokens == { u \o c : u \in Chars, c \in Changes } \cup { <<120, 88, 43, 114>> }

\* Longer strings that are not a username followed by a change: "foo+",
\* "bar-", "x+x", "xr+", "x+rx", "x r", "xx" and e-acute, "xx" and the euro
\* sign, "xxx" and the euro sign.
OtherTokens ==
    { <<102, 111, 111, 43>>, <<98, 97, 114, 45>>, <<120, 43, 120>>, <<120, 114, 43>>,
      <<120, 43, 114, 120>>, <<120, 32, 114>>, <<120, 120, 195, 169>>,
      <<120, 120, 226, 130, 172>>, <<120, 120, 120, 226, 130, 172>> }

AclTokens == ShortTokens \cup WellFormedTokens \cup OtherTokens

\* str::is_char_boundary: the index is 0, the length, or the index of a byte
\* that is not a continuation byte (0x80..0xBF).
IsCharBoundary(bytes, index) ==
    \/ index = 0
    \/ index = Len(bytes)
    \/ index < Len(bytes) /\ (bytes[index + 1] < 128 \/ bytes[index + 1] >= 192)

\* let change = if acl.len() < 3 { String::new() } else { acl.split_off(acl.len() - 2) };
\* let username = acl;  split_off panics when the index is not on a char boundary.
SplitAcl(token) ==
    IF Len(token) < 3
    THEN [panic |-> FALSE, username |-> token, change |-> <<>>]
    ELSE IF ~IsCharBoundary(token, Len(token) - 2)
    THEN [panic |-> TRUE, username |-> token, change |-> <<>>]
    ELSE [panic |-> FALSE, username |-> SubSeq(token, 1, Len(token) - 2),
          change |-> SubSeq(token, Len(token) - 1, Len(token))]

\* The results of parse_acl.  The message of the error is the format string
\* with the username and the change in its two holes.
AclOk == [kind |-> "Ok", msg |-> <<>>]

AclPanic == [kind |-> "Panic", msg |-> <<>>]

AclNone == [kind |-> "None", msg |-> <<>>]

InvalidAcl(user, change) ==
    [kind |-> "ArgumentError",
     msg |-> << "Invalid ACL '", user \o change,
                "': must be of the form \"username+r\" or \"username-r\"" >>]

\* FileAcls::add_reader: the readers are a set, adding one twice is adding it once.
AddReader(readers, reader) == readers \cup { reader }

\* The arms of the match that add a reader: the change is one of the four
\* and the username is not empty.
Accepted(split) == ~split.panic /\ split.username # <<>> /\ split.change \in Changes

\* The additive FileAcls after parse_acl, as a bug would write it: the
\* username is added as soon as the change starts with a plus sign.
ParseAclAddEager(token, readers) ==
    LET split == SplitAcl(token) IN
    IF ~split.panic /\ split.username # <<>> /\ split.change # <<>> /\ split.change[1] = 43
    THEN AddReader(readers, split.username) ELSE readers

\* The additive FileAcls after parse_acl: the arms "+r" and "+R".
ParseAclAdd(token, readers) ==
    LET split == SplitAcl(token) IN
    IF Accepted(split) /\ split.change \in { <<43, 114>>, <<43, 82>> }
    THEN AddReader(readers, split.username) ELSE readers

\* The subtractive FileAcls after parse_acl, as a bug would write it: the
\* flag is matched in lowercase only.
ParseAclRemoveLowercase(token, readers) ==
    LET split == SplitAcl(token) IN
    IF Accepted(split) /\ split.change = <<45, 114>>
    THEN AddReader(readers, split.username) ELSE readers

\* The subtractive FileAcls after parse_acl: the arms "-r" and "-R".
ParseAclRemove(token, readers) ==
    LET split == SplitAcl(token) IN
    IF Accepted(split) /\ split.change \in { <<45, 114>>, <<45, 82>> }
    THEN AddReader(readers, split.username) ELSE readers

\* What parse_acl returns, or that it panicked.
ParseAclResult(token) ==
    LET split == SplitAcl(token) IN
    IF split.panic THEN AclPanic
    ELSE IF Accepted(split) THEN AclOk
    ELSE InvalidAcl(split.username, split.change)

\* The two FileAcls are FileAcls::default(), and parse_acl was not called.
InitAcl ==
    /\ add = {}
    /\ remove = {}
    /\ acl = [token |-> <<>>, res |-> AclNone, add0 |-> {}, remove0 |-> {}]

\* One call of parse_acl on the two FileAcls.  A panic ends the program.
ParseAcl(token) ==
    /\ acl.res.kind # "Panic"
    /\ Cardinality(add) + Cardinality(remove) <= MaxReaders
    /\ add' = ParseAclAdd(token, add)
    /\ remove' = ParseAclRemove(token, remove)
    /\ acl' = [token |-> token, res |-> ParseAclResult(token), add0 |-> add, remove0 |-> remove]
    /\ UNCHANGED <<memVars, loginVars, shareVars, stoVars>>

ParseAclStep == \E token \in AclTokens : ParseAcl(token)

\* The lists a FileAcls is seeded with: up to two readers among "x" and "X",
\* in any order, the same one twice included.
SeedLists ==
    UNION { [1..n -> { <<120>>, <<88>> }] : n \in 0..2 }

\* FileAcls::default().with_readers(list): the readers of the list.
WithReaders(list) == { list[i] : i \in 1..Len(list) }

\* One of the two FileAcls is built anew, seeded with a list of readers.
Seed(which, list) ==
    /\ acl.res.kind # "Panic"
    /\ add' = IF which = "add" THEN WithReaders(list) ELSE add
    /\ remove' = IF which = "remove" THEN WithReaders(list) ELSE remove
    /\ acl' = [token |-> <<>>, res |-> AclNone, add0 |-> add, remove0 |-> remove]
    /\ UNCHANGED <<memVars, loginVars, shareVars, stoVars>>

SeedStep == \E which \in { "add", "remove" }, list \in SeedLists : Seed(which, list)

NextAcl == ParseAclStep \/ SeedStep

(***************************************************************************)
(* Inputs of the SHARE command.                                            *)
(***************************************************************************)

\* The number of arguments of a SHARE, the filename included.
MaxShareArgs == 3

\* The paths and the ACL changes the arguments evaluate to.  "e'+" stands for
\* the text made of e-acute and a plus sign.
SharePaths == { "MEMORY:/f", "MEMORY:/g", "CLOUD:/f" }

ShareChanges == { "A+r", "A-r", "B+r", "a+R", "B-R", "A+", "e'+" }

ShareExprs ==
    { [kind |-> "text", text |-> t] : t \in SharePaths \cup ShareChanges }
        \cup { [kind |-> "integer", text |-> ""], [kind |-> "error", text |-> ""] }

\* The arguments that may stand at position i: the parser ends the list with
\* the separator End, and the list has at most MaxShareArgs arguments.
ShareArgsAt(i) ==
    [expr : ShareExprs \cup {NoExpr},
     sep : IF i >= MaxShareArgs THEN {"End"} ELSE {"End", "Long", "Short"}]

\* The UTF-8 bytes of a text, as String holds them.
Utf8Bytes(t) ==
    CASE t = "A+r" -> <<65, 43, 114>>
      [] t = "A-r" -> <<65, 45, 114>>
      [] t = "B+r" -> <<66, 43, 114>>
      [] t = "a+R" -> <<97, 43, 82>>
      [] t = "B-R" -> <<66, 45, 82>>
      [] t = "A+" -> <<65, 43>>
      [] t = "e'+" -> <<195, 169, 43>>
      [] t = "MEMORY:/f" -> <<77, 69, 77, 79, 82, 89, 58, 47, 102>>
      [] t = "MEMORY:/g" -> <<77, 69, 77, 79, 82, 89, 58, 47, 103>>
      [] t = "CLOUD:/f" -> <<67, 76, 79, 85, 68, 58, 47, 102>>
      [] t = "MEMORY:/A" -> <<77, 69, 77, 79, 82, 89, 58, 47, 65>>
      [] t = "memory:/f" -> <<109, 101, 109, 111, 114, 121, 58, 47, 102>>
      [] t = "CLOUD:/A" -> <<67, 76, 79, 85, 68, 58, 47, 65>>
      [] t = "MEMORY:/A:B" -> <<77, 69, 77, 79, 82, 89, 58, 47, 65, 58, 66>>
      [] t = "MEMORY:/" -> <<77, 69, 77, 79, 82, 89, 58, 47>>
      [] t = "CLOUD:/" -> <<67, 76, 79, 85, 68, 58, 47>>

\* The text of a reader, as format!("{}") writes it.
Utf8Text(bytes) ==
    CASE bytes = <<65>> -> "A"
      [] bytes = <<66>> -> "B"
      [] bytes = <<97>> -> "a"

(***************************************************************************)
(* The ACL operations of Storage on the drive mounted as MEMORY.           *)
(***************************************************************************)

\* The split of a path, as a bug would write it: at its last colon.
SplitPathLastColon(bytes) ==
    LET colons == { i \in 1..Len(bytes) : bytes[i] = 58 } IN
    IF colons = {} THEN [ok |-> FALSE, drive |-> <<>>, entry |-> <<>>]
    ELSE LET at == CHOOSE i \in colons : \A j \in colons : j <= i
         IN  [ok |-> TRUE, drive |-> SubSeq(bytes, 1, at - 1),
              entry |-> SubSeq(bytes, at + 2, Len(bytes))]

\* <DRIVE>:/<entry>, split on the first colon: the drive name before it and
\* the entry after the slash that follows it.
SplitPath(bytes) ==
    LET colons == { i \in 1..Len(bytes) : bytes[i] = 58 } IN
    IF colons = {} THEN [ok |-> FALSE, drive |-> <<>>, entry |-> <<>>]
    ELSE LET at == CHOOSE i \in colons : \A j \in colons : i <= j
         IN  [ok |-> TRUE, drive |-> SubSeq(bytes, 1, at - 1),
              entry |-> SubSeq(bytes, at + 2, Len(bytes))]

\* The drive names and the entry names, as texts.
DriveText(bytes) ==
    CASE bytes = <<77, 69, 77, 79, 82, 89>> -> "MEMORY"
      [] bytes = <<109, 101, 109, 111, 114, 121>> -> "memory"
      [] bytes = <<67, 76, 79, 85, 68>> -> "CLOUD"
      [] OTHER -> ""

EntryText(bytes) ==
    CASE bytes = <<102>> -> "f"
      [] bytes = <<103>> -> "g"
      [] OTHER -> ""

\* The drive and the entry of a path.
ResolvePath(path) ==
    LET split == SplitPath(Utf8Bytes(path)) IN
    [ok |-> split.ok, drive |-> DriveText(split.drive), entry |-> EntryText(split.entry)]

\* The drive holds one entry, which has had no ACL change.
InitFiles == [e \in {"f"} |-> [content |-> <<104>>, readers |-> {}]]

\* Whether the path names an entry of a mounted drive.
Found(table, fs, path) ==
    LET r == ResolvePath(path) IN
    r.ok /\ r.drive \in DOMAIN table /\ r.drive = "MEMORY" /\ r.entry \in DOMAIN fs

\* get_acls, as a bug would write it: the ACLs of an entry are always empty.
GetAclsNoReaders(table, fs, path) ==
    IF Found(table, fs, path)
    THEN [ok |-> TRUE, msg |-> "", readers |-> {}]
    ELSE [ok |-> FALSE, msg |-> "Entry not found", readers |-> {}]

\* get_acls: the readers of the entry, or NotFound.
GetAcls(table, fs, path) ==
    IF Found(table, fs, path)
    THEN [ok |-> TRUE, msg |-> "", readers |-> fs[ResolvePath(path).entry].readers]
    ELSE [ok |-> FALSE, msg |-> "Entry not found", readers |-> {}]

\* update_acls: the readers of add are made present, then those of remove
\* absent; the content of the entry and the other entries are left alone.
UpdateAcls(table, fs, path, a, r) ==
    IF Found(table, fs, path)
    THEN [ok |-> TRUE, msg |-> "",
          files |-> [fs EXCEPT ![ResolvePath(path).entry].readers = (@ \cup a) \ r]]
    ELSE [ok |-> FALSE, msg |-> "Entry not found", files |-> fs]

\* FileAcls::readers(), as a bug would write it: the readers in decreasing
\* order.
RECURSIVE ReadersDescending(_)
ReadersDescending(set) ==
    IF set = {} THEN <<>>
    ELSE LET greatest == CHOOSE x \in set : \A y \in set \ {x} : StrLess(y, x)
         IN  << greatest >> \o ReadersDescending(set \ {greatest})

\* FileAcls::readers(): the readers in sorted order.
RECURSIVE Readers(_)
Readers(set) ==
    IF set = {} THEN <<>>
    ELSE LET least == CHOOSE x \in set : \A y \in set \ {x} : StrLess(x, y)
         IN  << least >> \o Readers(set \ {least})

(***************************************************************************)
(* ShareCommand::show_acls and ShareCommand::exec.                         *)
(***************************************************************************)

\* The prints of show_acls, as a bug would write them: the closing empty
\* line is missing.
ShowAclsPrintsOpen(path, readers) ==
    << ConsolePrint("") >>
        \o (IF Len(readers) = 0
            THEN << ConsolePrint("    No ACLs on " \o path) >>
            ELSE << ConsolePrint("    Reader ACLs on " \o path \o ":") >>
                 \o [i \in 1..Len(readers) |-> ConsolePrint("    " \o Utf8Text(readers[i]))])

\* The prints of show_acls for the readers() of the ACLs it fetched.
ShowAclsPrints(path, readers) ==
    << ConsolePrint("") >>
        \o (IF Len(readers) = 0
            THEN << ConsolePrint("    No ACLs on " \o path) >>
            ELSE << ConsolePrint("    Reader ACLs on " \o path \o ":") >>
                 \o [i \in 1..Len(readers) |-> ConsolePrint("    " \o Utf8Text(readers[i]))])
        \o << ConsolePrint("") >>

\* The match on an ACL argument, as a bug would write it: the separator is
\* not looked at.
ShareArgCheckAnySeparator(arg) ==
    IF arg.expr = NoExpr THEN "empty" ELSE "eval"

\* The match on an ACL argument: (None, _), then (_, ArgSep::Short), then
\* (Some(acl), _).
ShareArgCheck(arg) ==
    IF arg.expr = NoExpr THEN "empty"
    ELSE IF arg.sep = "Short" THEN "separator"
    ELSE "eval"

\* Where exec goes after parse_acl, as a bug would write it: the error of
\* parse_acl is dropped and the loop goes on.
AfterAclLenient(res, sep) ==
    IF res.kind = "Panic" THEN "panicked"
    ELSE IF sep = "End" THEN "update_acls"
    ELSE "next_arg"

\* Where exec goes after parse_acl: out with its error, to the next argument,
\* or to update_acls after the last one.
AfterAcl(res, sep) ==
    IF res.kind = "Panic" THEN "panicked"
    ELSE IF res.kind # "Ok" THEN "done"
    ELSE IF sep = "End" THEN "update_acls"
    ELSE "next_arg"

\* The ACL arguments of exec's call of update_acls, as a bug would write
\* them: add and remove are swapped.
UpdateAclsArgsSwapped(a, r) == [add |-> r, remove |-> a]

\* The ACL arguments of exec's call of update_acls(&filename, &add, &remove).
UpdateAclsArgs(a, r) == [add |-> a, remove |-> r]

\* The ? operator on the result of parse_acl: the ArgumentError, with the
\* two holes of its message left open.
FromAclError(res) == ArgumentError(res.msg[1] \o "{}{}" \o res.msg[3])

SharePanic == [kind |-> "Panic", msg |-> ""]

ShareCommasMsg == "SHARE requires arguments to be separated by commas"

ShareFilenameMsg == "SHARE requires a string as the filename"

\* What get_acls returned to the running SHARE, while it has not: whether it
\* returned Ok, and the readers() of the FileAcls.
NoAcls == [ok |-> FALSE, readers |-> <<>>]

\* The ACL changes of the session: none so far; then the add and the remove
\* of the first update_acls that succeeded, while it is the only one; then
\* that there were several.
NoChange == [n |-> 0, add |-> {}, remove |-> {}]

Changed(only, a, r) ==
    IF only.n = 0 THEN [n |-> 1, add |-> a, remove |-> r]
    ELSE [n |-> 2, add |-> {}, remove |-> {}]

\* No SHARE has run.
InitShare ==
    /\ files = InitFiles
    /\ sharePc = "idle"
    /\ shareArgs = <<>>
    /\ filename = ""
    /\ addAcls = {}
    /\ removeAcls = {}
    /\ shareOut = <<>>
    /\ shareResult = NoResult
    /\ share = [files0 |-> InitFiles, gets |-> 0, updates |-> 0, failAt |-> 0,
                parsed |-> AclNone, got |-> NoAcls, only |-> NoChange]

\* exec, up to its first await: the check for no arguments, and the match
\* on the first.  a is the argument list up to its first argument.
ShareExec(a) ==
    /\ sharePc \in { "idle", "done" }
    /\ UNCHANGED <<stoVars, memVars, loginVars, aclVars, files>>
    /\ shareArgs' = a
    /\ filename' = ""
    /\ addAcls' = {}
    /\ removeAcls' = {}
    /\ shareOut' = <<>>
    /\ share' = [files0 |-> files, gets |-> 0, updates |-> 0, failAt |-> 0,
                 parsed |-> AclNone, got |-> NoAcls, only |-> share.only]
    /\ IF Len(a) = 0
       THEN /\ sharePc' = "done"
            /\ shareResult' = ArgumentError("SHARE requires one or more arguments")
       ELSE IF a[1].expr = NoExpr
       THEN /\ sharePc' = "done"
            /\ shareResult' = ArgumentError(ShareFilenameMsg)
       ELSE /\ sharePc' = "eval_filename"
            /\ shareResult' = NoResult

\* The evaluation of the filename returns, and exec looks at the separator
\* that follows it.
ShareEvalFilename ==
    /\ sharePc = "eval_filename"
    /\ UNCHANGED <<stoVars, memVars, loginVars, aclVars, files, shareArgs, addAcls, removeAcls,
                   shareOut, share>>
    /\ LET e == shareArgs[1].expr
           sep == shareArgs[1].sep
       IN  IF e.kind = "error"
           THEN /\ sharePc' = "done"
                /\ shareResult' = EvalError
                /\ filename' = filename
           ELSE IF e.kind # "text"
           THEN /\ sharePc' = "done"
                /\ shareResult' = ArgumentError(ShareFilenameMsg)
                /\ filename' = filename
           ELSE /\ filename' = e.text
                /\ IF sep = "End"
                   THEN /\ sharePc' = "get_acls"
                        /\ shareResult' = shareResult
                   ELSE IF sep # "Long"
                   THEN /\ sharePc' = "done"
                        /\ shareResult' = ArgumentError(ShareCommasMsg)
                   ELSE /\ sharePc' = "next_arg"
                        /\ shareResult' = shareResult

\* The loop over args[1..] reaches its next argument.
ShareNextArg(arg) ==
    /\ sharePc = "next_arg"
    /\ UNCHANGED <<stoVars, memVars, loginVars, aclVars, files, filename, addAcls, removeAcls,
                   shareOut, share>>
    /\ shareArgs' = Append(shareArgs, arg)
    /\ IF ShareArgCheck(arg) = "empty"
       THEN /\ sharePc' = "done"
            /\ shareResult' = ArgumentError("SHARE arguments cannot be empty")
       ELSE IF ShareArgCheck(arg) = "separator"
       THEN /\ sharePc' = "done"
            /\ shareResult' = ArgumentError(ShareCommasMsg)
       ELSE /\ sharePc' = "eval_acl"
            /\ shareResult' = shareResult

\* The evaluation of an ACL argument returns, and parse_acl is called on its
\* text.
ShareEvalAcl ==
    /\ sharePc = "eval_acl"
    /\ UNCHANGED <<stoVars, memVars, loginVars, aclVars, files, shareArgs, filename, shareOut>>
    /\ LET arg == shareArgs[Len(shareArgs)] IN
       IF arg.expr.kind = "error"
       THEN /\ sharePc' = "done"
            /\ shareResult' = EvalError
            /\ UNCHANGED <<addAcls, removeAcls, share>>
       ELSE IF arg.expr.kind # "text"
       THEN /\ sharePc' = "done"
            /\ shareResult' = ArgumentError("SHARE requires strings as ACL changes")
            /\ UNCHANGED <<addAcls, removeAcls, share>>
       ELSE LET token == Utf8Bytes(arg.expr.text)
                res == ParseAclResult(token)
            IN  /\ addAcls' = ParseAclAdd(token, addAcls)
                /\ removeAcls' = ParseAclRemove(token, removeAcls)
                /\ share' = [share EXCEPT !.parsed = res]
                /\ sharePc' = AfterAcl(res, arg.sep)
                /\ shareResult' = IF res.kind = "Panic" THEN SharePanic
                                  ELSE IF res.kind # "Ok" THEN FromAclError(res)
                                  ELSE shareResult

\* show_acls: get_acls returns, and the ACLs are printed; the print at
\* failAt fails (0: none does).
ShareShowAcls ==
    /\ sharePc = "get_acls"
    /\ UNCHANGED <<stoVars, memVars, loginVars, aclVars, files, shareArgs, filename, addAcls,
                   removeAcls>>
    /\ sharePc' = "done"
    /\ LET acls == GetAcls(mounts, files, filename)
           prints == ShowAclsPrints(filename, Readers(acls.readers))
       IN  IF ~acls.ok
           THEN /\ shareResult' = FromIoError(acls.msg)
                /\ shareOut' = shareOut
                /\ share' = [share EXCEPT !.gets = @ + 1]
           ELSE \E failAt \in 0..Len(prints) :
                    /\ share' = [share EXCEPT !.gets = @ + 1, !.failAt = failAt,
                                              !.got = [ok |-> TRUE,
                                                       readers |-> Readers(acls.readers)]]
                    /\ shareOut' = IF failAt > 0 THEN SubSeq(prints, 1, failAt - 1)
                                   ELSE prints
                    /\ shareResult' = IF failAt > 0 THEN FromIoError(ConsoleErrorMsg)
                                      ELSE CmdOk

\* update_acls returns.
ShareUpdateAcls ==
    /\ sharePc = "update_acls"
    /\ UNCHANGED <<stoVars, memVars, loginVars, aclVars, shareArgs, filename, addAcls, removeAcls,
                   shareOut>>
    /\ sharePc' = "done"
    /\ LET acls == UpdateAclsArgs(addAcls, removeAcls)
           updated == UpdateAcls(mounts, files, filename, acls.add, acls.remove)
       IN  /\ files' = updated.files
           /\ share' = [share EXCEPT !.updates = @ + 1,
                                     !.only = IF updated.ok
                                              THEN Changed(@, acls.add, acls.remove) ELSE @]
           /\ shareResult' = IF updated.ok THEN CmdOk ELSE FromIoError(updated.msg)

ShareExecStep == \E a \in { <<>> } \cup { << first >> : first \in ShareArgsAt(1) } : ShareExec(a)

ShareNextArgStep == \E arg \in ShareArgsAt(Len(shareArgs) + 1) : ShareNextArg(arg)

NextShare ==
    \/ ShareExecStep
    \/ ShareEvalFilename
    \/ ShareNextArgStep
    \/ ShareEvalAcl
    \/ ShareShowAcls
    \/ ShareUpdateAcls

(***************************************************************************)
(* Storage, called directly: register_scheme, mount, and the operations    *)
(* on a path, which Storage routes to the drive the path names.            *)
(***************************************************************************)

\* The drive names and the targets of the mounts.
StoNames == { "CLOUD", "DATA" }

StoUris == { "cloud://alice", "cloud://hunter2", "file://alice" }

\* The paths of the operations, and the operations on them: enumerate is
\* called on the root of a drive, the others on an entry; put is called on
\* the entries whose name is one of Names.
StoPaths ==
    { "MEMORY:/A", "MEMORY:/f", "memory:/f", "CLOUD:/A", "MEMORY:/A:B", "MEMORY:/",
      "CLOUD:/" }

StoCalls ==
    { c \in [op : { "get", "put", "delete", "enumerate", "get_acls", "update_acls" },
             path : StoPaths] :
        /\ (c.op = "enumerate") <=> (SplitPath(Utf8Bytes(c.path)).entry = <<>>)
        /\ c.op = "put" => SplitPath(Utf8Bytes(c.path)).entry \in Names }

\* The error of an operation on a path whose drive is not mounted.
DriveNotMounted == [kind |-> "NotFound", msg |-> "Drive is not mounted"]

\* The result of the drive's operation on the entry, and the map it leaves.
DriveResult(op, m, name, content, o) ==
    CASE op = "get" -> GetResult(m, name)
      [] op = "put" -> PutResult(m, name, content)
      [] op = "delete" -> DeleteResult(m, name)
      [] op = "enumerate" -> EnumerateResult(m, o)

DriveMap(op, m, name, content) ==
    CASE op = "put" -> PutMap(m, name, content)
      [] op = "delete" -> DeleteMap(m, name)
      [] OTHER -> m

\* No call of Storage was made.
NoSto ==
    [op |-> "none", name |-> "", uri |-> "", built |-> TRUE, path |-> "",
     res |-> [kind |-> "Ok", msg |-> ""],
     schemes0 |-> DefaultSchemes, mounts0 |-> DefaultMounts, programs0 |-> EmptyMap,
     files0 |-> InitFiles, latest |-> DefaultMounts]

InitSto == sto = NoSto

\* The state a call is invoked on.
StoBefore(op) ==
    [NoSto EXCEPT !.op = op, !.schemes0 = schemes, !.mounts0 = mounts,
                  !.programs0 = programs, !.files0 = files, !.latest = sto.latest]

\* register_scheme("cloud", factory).
StoRegister(token) ==
    /\ schemes' = RegisterScheme(schemes, "cloud", CloudDriveFactory(token))
    /\ sto' = StoBefore("register_scheme")
    /\ UNCHANGED <<memVars, mounts, pc, args, username, password, out, result, cmd,
                   aclVars, shareVars>>

\* mount(drive_name, uri), where built says whether the factory builds the
\* drive.
StoMount(drive_name, uri, built) ==
    LET mounted == Mount(schemes, mounts, drive_name, uri, built) IN
    /\ mounts' = mounted.mounts
    /\ sto' = [StoBefore("mount") EXCEPT
                  !.name = drive_name, !.uri = uri, !.built = built,
                  !.res = IF mounted.ok THEN [kind |-> "Ok", msg |-> ""]
                          ELSE [kind |-> "IoError", msg |-> mounted.msg],
                  !.latest = IF mounted.ok
                             THEN [d \in (DOMAIN @) \cup {drive_name} |->
                                      IF d = drive_name THEN uri ELSE @[d]]
                             ELSE @]
    /\ UNCHANGED <<memVars, schemes, pc, args, username, password, out, result, cmd,
                   aclVars, shareVars>>

\* An operation on a path whose drive, if it is mounted, is the in-memory
\* drive: Storage resolves the path and has the drive do the operation.
StoCall(c, content, a, r, o) ==
    LET path == ResolvePath(c.path)
        name == SplitPath(Utf8Bytes(c.path)).entry
        routed == path.ok /\ path.drive \in DOMAIN mounts
        acls == IF c.op = "get_acls" THEN GetAcls(mounts, files, c.path)
                ELSE UpdateAcls(mounts, files, c.path, a, r)
    IN  /\ routed => mounts[path.drive] = "memory://"
        /\ IF c.op \in { "get_acls", "update_acls" }
           THEN /\ files' = IF c.op = "update_acls" THEN acls.files ELSE files
                /\ sto' = [StoBefore(c.op) EXCEPT
                              !.path = c.path,
                              !.res = IF ~routed THEN DriveNotMounted
                                      ELSE IF acls.ok THEN [kind |-> "Ok", msg |-> ""]
                                      ELSE [kind |-> "NotFound", msg |-> acls.msg]]
                /\ UNCHANGED memVars
           ELSE /\ files' = files
                /\ IF routed
                   THEN /\ programs' = DriveMap(c.op, programs, name, content)
                        /\ ret' = [op |-> c.op,
                                   name |-> IF c.op = "enumerate" THEN <<>> ELSE name,
                                   content |-> IF c.op = "put" THEN content ELSE <<>>,
                                   res |-> DriveResult(c.op, programs, name, content, o),
                                   before |-> programs, live |-> lastPut]
                        /\ lastPut' = IF c.op = "put" THEN [lastPut EXCEPT ![name] = Live(content)]
                                      ELSE IF c.op = "delete" /\ name \in Names
                                      THEN [lastPut EXCEPT ![name] = Absent]
                                      ELSE lastPut
                        /\ sto' = [StoBefore(c.op) EXCEPT
                                      !.path = c.path,
                                      !.res = [kind |-> DriveResult(c.op, programs, name,
                                                                    content, o).kind,
                                               msg |-> DriveResult(c.op, programs, name,
                                                                   content, o).msg]]
                   ELSE /\ UNCHANGED memVars
                        /\ sto' = [StoBefore(c.op) EXCEPT !.path = c.path,
                                                          !.res = DriveNotMounted]
        /\ UNCHANGED <<loginVars, aclVars, sharePc, shareArgs, filename, addAcls, removeAcls,
                       shareOut, shareResult, share>>

StoRegisterStep == \E token \in Tokens : StoRegister(token)

StoMountStep ==
    \E drive_name \in StoNames, uri \in StoUris, built \in BOOLEAN :
        StoMount(drive_name, uri, built)

StoCallStep ==
    \E c \in StoCalls :
        \E content \in IF c.op = "put" THEN { <<>>, <<104>> } ELSE { <<>> } :
            \E a \in IF c.op = "update_acls" THEN { {}, { <<65>> } } ELSE { {} } :
                \E r \in IF c.op = "update_acls" THEN { {}, { <<65>> } } ELSE { {} } :
                    \E o \in IF c.op = "enumerate" THEN IterOrders(programs) ELSE { <<>> } :
                        StoCall(c, content, a, r, o)

NextSto == StoRegisterStep \/ StoMountStep \/ StoCallStep

Init == InitMem /\ InitLogin /\ InitAcl /\ InitShare /\ InitSto

Next == NextMem \/ NextLogin \/ NextAcl \/ NextShare \/ NextSto

\* The drive alone, the LOGIN command alone, parse_acl alone, the SHARE
\* command alone, Storage called directly, and all together.  They share no variable, so each is checked under its own
\* specification.
SpecMem == Init /\ [][NextMem]_vars

SpecLogin == Init /\ [][NextLogin]_vars

SpecAcl == Init /\ [][NextAcl]_vars

SpecShare == Init /\ [][NextShare]_vars

SpecStorage == Init /\ [][NextSto]_vars

Spec == Init /\ [][Next]_vars

(***************************************************************************)
(* Properties of the in-memory drive, checked under SpecMem.               *)
(***************************************************************************)

\* C1: a get(name) that follows a put(name, content), with no put or delete of
\* that name in between, returns Ok with exactly that content.
C1_PutGetRoundTrip ==
    (ret.op = "get" /\ ret.live[ret.name].live)
        => ret.res = OkContent(ret.live[ret.name].content)

\* C1 witness: a get returned the two-byte content of an earlier put, with
\* another name stored too.
C1_Witness ==
    /\ ret.op = "get"
    /\ ret.live[ret.name].live
    /\ ret.res.content = <<195, 169>>
    /\ Cardinality(DOMAIN programs) >= 2

\* C2: a delete(name) that follows a put(name, _) succeeds, and once a name is
\* deleted a get of it fails with NotFound; a delete of a name that is absent
\* (never put, or deleted since) fails with NotFound.
C2_DeleteThenNotFound ==
    /\ (ret.op = "delete" /\ ret.live[ret.name].live) => ret.res = OkUnit
    /\ (ret.op = "delete" /\ ~ret.live[ret.name].live) => ret.res = NotFoundErr
    /\ (ret.op = "get" /\ ~ret.live[ret.name].live) => ret.res = NotFoundErr
    /\ ret.op = "delete" => GetResult(programs, ret.name) = NotFoundErr

\* C2 witness: a delete of a stored name succeeded while other names stay stored.
C2_Witness ==
    /\ ret.op = "delete"
    /\ ret.live[ret.name].live
    /\ ret.res = OkUnit
    /\ DOMAIN programs # {}

\* The names with a live put, per the history.
LiveNames == { n \in Names : lastPut[n].live }

\* C3: enumerate succeeds and returns exactly the live names, each once, in
\* increasing name order, each with the byte length of its current content;
\* with no live name the result is empty and still Ok.
C3_EnumerateLiveSorted ==
    ret.op = "enumerate" =>
        LET es == ret.res.entries IN
        /\ ret.res.kind = "Ok"
        /\ { es[i].name : i \in DOMAIN es } = LiveNames
        /\ Len(es) = Cardinality(LiveNames)
        /\ \A i \in DOMAIN es : es[i].meta.length = Len(lastPut[es[i].name].content)
        /\ \A i, j \in DOMAIN es : i < j => StrLess(es[i].name, es[j].name)

\* C3 witness: an enumerate of a drive that holds all three names, one of
\* them of length 2 and one of length 0.
C3_Witness ==
    /\ ret.op = "enumerate"
    /\ Len(ret.res.entries) = 3
    /\ \E i \in DOMAIN ret.res.entries : ret.res.entries[i].meta.length = 2
    /\ \E i \in DOMAIN ret.res.entries : ret.res.entries[i].meta.length = 0

\* C4: put always returns Ok; afterwards the drive holds the name with the
\* new content (also when it held the name before), holds it once, and every
\* other entry is as it was.
C4_PutOverwrites ==
    ret.op = "put" =>
        /\ ret.res = OkUnit
        /\ ret.name \in DOMAIN programs
        /\ programs[ret.name] = ret.content
        /\ DOMAIN programs = (DOMAIN ret.before) \cup {ret.name}
        /\ \A n \in (DOMAIN programs) \ {ret.name} : programs[n] = ret.before[n]
        /\ \A o \in IterOrders(programs) :
              Cardinality({ i \in DOMAIN EnumerateResult(programs, o).entries :
                  EnumerateResult(programs, o).entries[i].name = ret.name }) = 1

\* C4 witness: a put over an existing entry with a different content, while
\* another entry is stored.
C4_Witness ==
    /\ ret.op = "put"
    /\ ret.name \in DOMAIN ret.before
    /\ ret.before[ret.name] # ret.content
    /\ Cardinality(DOMAIN programs) >= 2

(***************************************************************************)
(* Properties of the LOGIN command, checked under SpecLogin.               *)
(***************************************************************************)

\* The running LOGIN started in a session without the cloud scheme, and the
\* service accepted its credentials.
AcceptedFirstLogin ==
    /\ pc = "done"
    /\ cmd.auth.kind = "accepted"
    /\ ~HasScheme(cmd.schemes0, "cloud")

\* C5, as stated: a LOGIN with credentials the service accepts, in a session
\* where the cloud scheme is not registered, ends with the scheme registered
\* and CLOUD mounted on cloud://<username>.
C5_AcceptedLoginEndsMounted ==
    AcceptedFirstLogin =>
        /\ HasScheme(schemes, "cloud")
        /\ "CLOUD" \in DOMAIN Mounted(mounts)
        /\ Mounted(mounts)["CLOUD"] = "cloud://" \o username

\* C5, amended: such a LOGIN, when it returns Ok, ends with the scheme
\* registered with the token of the service's answer and CLOUD mounted on
\* cloud://<username>; when it returns an error (a console print of the MOTD
\* failed, or the mount failed) the mount table is as before the command,
\* and after a failed print so is the scheme registry.
C5_OkLoginEndsMounted ==
    AcceptedFirstLogin =>
        /\ result.kind = "Ok" =>
              /\ HasScheme(schemes, "cloud")
              /\ schemes["cloud"].token = cmd.auth.token
              /\ "CLOUD" \in DOMAIN Mounted(mounts)
              /\ Mounted(mounts)["CLOUD"] = "cloud://" \o username
              /\ \A d \in DOMAIN cmd.mounts0 : d \in DOMAIN mounts /\ mounts[d] = cmd.mounts0[d]
        /\ result.kind # "Ok" =>
              /\ result.kind = "IoError"
              /\ mounts = cmd.mounts0
              /\ result.msg = ConsoleErrorMsg => schemes = cmd.schemes0

\* C5 witness: alice's LOGIN was accepted with a MOTD and returned Ok, and
\* CLOUD is mounted on cloud://alice.
C5_Witness ==
    /\ AcceptedFirstLogin
    /\ result.kind = "Ok"
    /\ cmd.auth.motd # <<>>
    /\ "CLOUD" \in DOMAIN mounts
    /\ mounts["CLOUD"] = "cloud://alice"

\* C6: when the service rejects the credentials, LOGIN fails with the message
\* of the service's error, the scheme registry and the mount table are as
\* before the command, without the cloud scheme and without CLOUD; and the
\* LOGIN that follows a rejected one is not refused as a second login.
C6_RejectedLoginChangesNothing ==
    /\ (pc = "done" /\ cmd.auth.kind = "rejected") =>
          /\ result.kind = "IoError"
          /\ result.msg = cmd.auth.msg
          /\ schemes = cmd.schemes0
          /\ mounts = cmd.mounts0
          /\ ~HasScheme(schemes, "cloud")
          /\ "CLOUD" \notin DOMAIN Mounted(mounts)
    /\ cmd.prev = "rejected" =>
          ~(result.kind = "InternalError" /\ result.msg = LoginTwiceMsg)

\* C6 witness: a LOGIN that followed a rejected LOGIN reached the service and
\* was rejected with another message.
C6_Witness ==
    /\ pc = "done"
    /\ cmd.prev = "rejected"
    /\ cmd.auth.kind = "rejected"
    /\ result.msg = "Invalid password"

\* C7: once a LOGIN of the session has returned Ok, every later LOGIN returns
\* at once with the InternalError "Support for calling LOGIN twice in the same
\* session is not implemented", and the scheme registry and the mount table,
\* with CLOUD on the target of the first login, are unchanged.
C7_SecondLoginRejected ==
    cmd.everOk =>
        /\ pc = "done"
        /\ result.kind = "InternalError"
        /\ result.msg = "Support for calling LOGIN twice in the same session is not implemented"
        /\ schemes = cmd.schemes0
        /\ mounts = cmd.mounts0
        /\ HasScheme(schemes, "cloud")
        /\ "CLOUD" \in DOMAIN Mounted(mounts)
        /\ Mounted(mounts)["CLOUD"] = cmd.okTarget

\* C7 witness: a well-formed LOGIN that directly followed a successful LOGIN
\* has returned.
C7_Witness ==
    /\ pc = "done"
    /\ cmd.prev = "ok"
    /\ cmd.everOk
    /\ ArgShape(args) = "username_password"
    /\ result.kind = "InternalError"

\* C8, as stated: whenever a LOGIN has returned, with success or with any
\* error, the cloud scheme is registered if and only if CLOUD is mounted.
C8_NoPartialMount ==
    pc = "done" => (HasScheme(schemes, "cloud") <=> "CLOUD" \in DOMAIN Mounted(mounts))

\* C9: while LOGIN is suspended at one of its awaits, and after it was
\* cancelled there, the scheme registry and the mount table are as before the
\* command and the cloud scheme is not registered: the registration and the
\* mount both happen after the last await, in the step that returns.
C9_CancelLeavesStorage ==
    pc \in SuspensionPoints \cup { "cancelled" } =>
        /\ schemes = cmd.schemes0
        /\ mounts = cmd.mounts0
        /\ ~HasScheme(schemes, "cloud")
        /\ "CLOUD" \notin DOMAIN Mounted(mounts)

\* C9 witness: a LOGIN was cancelled while it awaited the service, after it
\* had read the password from the console.
C9_Witness ==
    /\ pc = "cancelled"
    /\ password # ""
    /\ out # <<>>

\* The framed MOTD, line by line.
FramedMotd(motd) ==
    IF motd = <<>> THEN <<>>
    ELSE << [kind |-> "Print", text |-> ""],
            [kind |-> "Print", text |-> "----- BEGIN SERVER MOTD -----"] >>
         \o [i \in 1..Len(motd) |-> [kind |-> "Print", text |-> motd[i]]]
         \o << [kind |-> "Print", text |-> "-----  END SERVER MOTD  -----"],
               [kind |-> "Print", text |-> ""] >>

\* What the password prompt of the running LOGIN wrote to the console.
PromptOutput ==
    IF ArgShape(args) = "username" THEN ReadLineSecureOutput("Password: ", password) ELSE <<>>

\* C10, as stated: on a successful login the console receives the framed
\* MOTD, and nothing at all when the MOTD is empty.
C10_ConsoleReceivesOnlyMotd ==
    (pc = "done" /\ result.kind = "Ok") => out = FramedMotd(cmd.auth.motd)

\* C10, amended: on a successful login the console receives, after what the
\* password prompt wrote (nothing when the password is an argument), an empty
\* line, the BEGIN banner, the MOTD lines in the service's order, the END
\* banner and an empty line; when the MOTD is empty it receives nothing after
\* the prompt's output.
C10_MotdFramedAfterPrompt ==
    (pc = "done" /\ result.kind = "Ok") => out = PromptOutput \o FramedMotd(cmd.auth.motd)

\* C10 witness: a successful login with a two-line MOTD, the password given
\* as an argument.
C10_Witness ==
    /\ pc = "done"
    /\ result.kind = "Ok"
    /\ Len(cmd.auth.motd) = 2
    /\ ArgShape(args) = "username_password"
    /\ Len(out) = 6

\* A LOGIN argument list of the wrong shape: no argument, more than two, an
\* empty slot, a separator that is not a comma between the two, or a
\* username or (the username being a text) a password that evaluates to a
\* value that is not a text.
WrongShape(a) ==
    \/ Len(a) = 0
    \/ Len(a) > 2
    \/ \E i \in 1..Len(a) : a[i].expr = NoExpr
    \/ Len(a) = 2 /\ a[1].sep # "Long"
    \/ a[1].expr.kind = "integer"
    \/ Len(a) = 2 /\ a[1].expr.kind = "text" /\ a[2].expr.kind = "integer"

\* C11, as stated: a LOGIN whose arguments have the wrong shape returns an
\* ArgumentError, has not called the service and has left the scheme registry
\* and the mount table unchanged.
C11_WrongShapeIsArgumentError ==
    (pc = "done" /\ WrongShape(args)) =>
        /\ result.kind = "ArgumentError"
        /\ ~cmd.called
        /\ schemes = cmd.schemes0
        /\ mounts = cmd.mounts0

\* C11, amended: a LOGIN whose arguments have the wrong shape never calls the
\* service, never reads the console and leaves the scheme registry and the
\* mount table unchanged; it returns an ArgumentError when the cloud scheme
\* was not registered as the command started, and the InternalError of a
\* second login when it was, because exec looks at the registry before it
\* looks at its arguments.
C11_WrongShapeRejectedFirst ==
    WrongShape(args) =>
        /\ ~cmd.called
        /\ cmd.reads = 0
        /\ pc \notin { "read_password", "login" }
        /\ schemes = cmd.schemes0
        /\ mounts = cmd.mounts0
        /\ pc = "done" =>
              result.kind = IF "cloud" \in DOMAIN cmd.schemes0 THEN "InternalError"
                            ELSE "ArgumentError"

\* C11 witness: a LOGIN with a semicolon between its two text arguments was
\* rejected with an ArgumentError in a session that never logged in.
C11_Witness ==
    /\ pc = "done"
    /\ Len(args) = 2
    /\ args[1].sep = "Short"
    /\ args[1].expr.kind = "text"
    /\ args[2].expr.kind = "text"
    /\ result.kind = "ArgumentError"
    /\ ~cmd.everOk

\* C12: LOGIN reads the console at most once, and only in the arm of one
\* argument.  When the service is called for LOGIN with the username alone,
\* exactly one secure read has been made before the call and the line read
\* is the password sent; when it is called for LOGIN with a username and a
\* password, no read has been made and the password sent is the argument.
C12_PasswordReadOnlyWhenOmitted ==
    /\ cmd.reads <= 1
    /\ Len(args) # 1 => cmd.reads = 0
    /\ cmd.called =>
          /\ Len(args) \in { 1, 2 }
          /\ cmd.sent.username = args[1].expr.text
          /\ Len(args) = 1 =>
                /\ cmd.reads = 1
                /\ cmd.sent.password = cmd.line
                /\ cmd.line \in Texts
          /\ Len(args) = 2 =>
                /\ cmd.reads = 0
                /\ cmd.sent.password = args[2].expr.text

\* C12 witness: a LOGIN with the username alone has succeeded with the
\* password that was typed at the prompt.
C12_Witness ==
    /\ pc = "done"
    /\ result.kind = "Ok"
    /\ Len(args) = 1
    /\ cmd.called
    /\ cmd.reads = 1
    /\ cmd.sent = [username |-> "alice", password |-> "hunter2"]

\* C13: the access token reaches neither the console nor the result.  When a
\* LOGIN that the service accepted has returned, its console output and its
\* result are those of the same run with any other access token in the
\* service's answer; and no text sent to the console, and no message
\* returned, is an access token.
C13_TokenNeverDisplayed ==
    /\ \A i \in 1..Len(out) : out[i].text \notin Tokens
    /\ result.msg \notin Tokens
    /\ (pc = "done" /\ cmd.auth.kind = "accepted") =>
          \A t \in Tokens :
              LET other == [access_token |-> t, motd |-> cmd.auth.motd] IN
              /\ out = PromptOutput \o LoginOutput(other, cmd.failAt)
              /\ result = LoginResult(cmd.schemes0, cmd.mounts0, username, other,
                                      cmd.failAt, cmd.built)

\* C13 witness: a LOGIN has succeeded with the second access token and has
\* printed a MOTD.
C13_Witness ==
    /\ pc = "done"
    /\ result.kind = "Ok"
    /\ cmd.auth.kind = "accepted"
    /\ cmd.auth.token = "token-2"
    /\ Len(cmd.auth.motd) = 1
    /\ Len(out) = 5

(***************************************************************************)
(* Properties of parse_acl, checked under SpecAcl.                         *)
(***************************************************************************)

\* The ACL message of parse_acl for a token, verbatim.
InvalidAclMessage(token) ==
    << "Invalid ACL '", token, "': must be of the form \"username+r\" or \"username-r\"" >>

\* C14: when the token of a parse_acl call is a non-empty username followed
\* by "+r" or "+R", the call returns Ok, the additive set is the one before
\* the call with exactly that username added, and the subtractive set is
\* unchanged; followed by "-r" or "-R", the subtractive set has exactly that
\* username added and the additive set is unchanged.  Readers are compared
\* byte by byte, so "X" and "x" are two readers.
C14_ChangeAddsReader ==
    \A u \in Chars \cup { <<120, 88>> }, c \in Changes :
        (acl.res.kind # "None" /\ acl.token = u \o c) =>
            /\ acl.res = [kind |-> "Ok", msg |-> <<>>]
            /\ c \in { <<43, 114>>, <<43, 82>> } =>
                  /\ add = acl.add0 \cup { u }
                  /\ remove = acl.remove0
            /\ c \in { <<45, 114>>, <<45, 82>> } =>
                  /\ remove = acl.remove0 \cup { u }
                  /\ add = acl.add0

\* C14 witness: "X-R" was parsed after "x-r": the subtractive set holds the
\* two readers "x" and "X", the additive set none.
C14_Witness ==
    /\ acl.token = <<88, 45, 82>>
    /\ acl.res.kind = "Ok"
    /\ acl.remove0 = { <<120>> }
    /\ remove = { <<120>>, <<88>> }
    /\ add = {}

\* C15, as stated: a parse_acl call on a token that is not a non-empty
\* username followed by one of the four changes returns an ArgumentError
\* whose message is Invalid ACL '<token>': must be of the form "username+r"
\* or "username-r", with the token verbatim.
C15_MalformedTokenRejected ==
    (acl.res.kind # "None" /\ acl.token \notin WellFormedTokens) =>
        /\ acl.res.kind = "ArgumentError"
        /\ acl.res.msg = InvalidAclMessage(acl.token)

\* C16: after a parse_acl call that failed, with an error or with a panic,
\* the additive and the subtractive sets are those the call was invoked on.
C16_FailedParseChangesNothing ==
    acl.res.kind \in { "ArgumentError", "Panic" } =>
        /\ add = acl.add0
        /\ remove = acl.remove0

\* C16 witness: "x+x" was rejected after each of the two sets had received a
\* reader.
C16_Witness ==
    /\ acl.token = <<120, 43, 120>>
    /\ acl.res.kind = "ArgumentError"
    /\ add = { <<120>> }
    /\ remove = { <<88>> }

(***************************************************************************)
(* Properties of the SHARE command, checked under SpecShare.               *)
(***************************************************************************)

\* The texts that are a username followed by a change, with the reader and
\* the sign of each.
ChangeOf(t) ==
    CASE t = "A+r" -> [reader |-> <<65>>, sign |-> "+"]
      [] t = "A-r" -> [reader |-> <<65>>, sign |-> "-"]
      [] t = "B+r" -> [reader |-> <<66>>, sign |-> "+"]
      [] t = "a+R" -> [reader |-> <<97>>, sign |-> "+"]
      [] t = "B-R" -> [reader |-> <<66>>, sign |-> "-"]
      [] OTHER -> [reader |-> <<>>, sign |-> ""]

\* The readers the ACL arguments of the running SHARE name with a sign.
Named(sign) ==
    { ChangeOf(shareArgs[i].expr.text).reader :
        i \in { j \in 2..Len(shareArgs) : ChangeOf(shareArgs[j].expr.text).sign = sign } }

\* C17: update_acls is called at most once by a SHARE, and only after every
\* argument was looked at and found valid: each is a text, each but the last
\* is followed by a comma, and each after the filename is a username followed
\* by a change.  Until then, and whenever the SHARE is rejected (by an error
\* or a panic, of any argument or of update_acls itself), every entry has the
\* content and the readers it had when the command started.
C17_ShareAllOrNothing ==
    /\ share.updates <= 1
    /\ share.updates = 1 =>
          /\ Len(shareArgs) >= 2
          /\ \A i \in 1..Len(shareArgs) :
                /\ shareArgs[i].expr.kind = "text"
                /\ shareArgs[i].sep = IF i = Len(shareArgs) THEN "End" ELSE "Long"
                /\ i >= 2 => ChangeOf(shareArgs[i].expr.text).sign # ""
    /\ share.updates = 0 => files = share.files0
    /\ (sharePc \in { "done", "panicked" } /\ shareResult.kind # "Ok") => files = share.files0

\* C17 witness: SHARE "MEMORY:/f", "A+r", "A+" was rejected for its last
\* argument, on an entry that had a reader.
C17_Witness ==
    /\ sharePc = "done"
    /\ shareResult.kind = "ArgumentError"
    /\ Len(shareArgs) = 3
    /\ shareArgs[1].expr.text = "MEMORY:/f"
    /\ shareArgs[2].expr.text = "A+r"
    /\ shareArgs[3].expr.text = "A+"
    /\ files["f"].readers = { <<66>> }

\* What is wrong with the arguments of the running SHARE, as the message of
\* the error that names it, or "" when nothing is: no argument; a filename
\* that is missing or evaluates to a value that is not a text; a separator
\* that is not a comma after a filename that is a text; and, after the
\* filename, an empty argument, a separator that is not a comma, or a value
\* that is not a text.
ShareDefect ==
    IF Len(shareArgs) = 0 THEN "SHARE requires one or more arguments"
    ELSE IF shareArgs[1].expr.kind \in { "none", "integer" }
    THEN "SHARE requires a string as the filename"
    ELSE IF shareArgs[1].expr.kind = "text" /\ shareArgs[1].sep = "Short"
    THEN "SHARE requires arguments to be separated by commas"
    ELSE IF \E i \in 2..Len(shareArgs) : shareArgs[i].expr.kind = "none"
    THEN "SHARE arguments cannot be empty"
    ELSE IF \E i \in 2..Len(shareArgs) : shareArgs[i].sep = "Short"
    THEN "SHARE requires arguments to be separated by commas"
    ELSE IF \E i \in 2..Len(shareArgs) : shareArgs[i].expr.kind = "integer"
    THEN "SHARE requires strings as ACL changes"
    ELSE ""

\* C18: a SHARE that has returned and whose arguments have one of these
\* defects has returned the ArgumentError that names the defect; it has
\* called neither get_acls nor update_acls, has printed nothing and has left
\* the files as they were.
C18_ShareArgumentDiscipline ==
    (sharePc = "done" /\ ShareDefect # "") =>
        /\ shareResult.kind = "ArgumentError"
        /\ shareResult.msg = ShareDefect
        /\ share.gets = 0
        /\ share.updates = 0
        /\ shareOut = <<>>
        /\ files = share.files0

\* C18 witness: SHARE "MEMORY:/f", "A+r"; "B+r" was rejected for the
\* semicolon after its second argument.
C18_Witness ==
    /\ sharePc = "done"
    /\ Len(shareArgs) = 2
    /\ shareArgs[1].expr.text = "MEMORY:/f"
    /\ shareArgs[2].expr.text = "A+r"
    /\ shareArgs[2].sep = "Short"
    /\ shareResult.kind = "ArgumentError"

\* The running SHARE was given a path and nothing else.
DisplayOnly ==
    /\ Len(shareArgs) = 1
    /\ shareArgs[1].expr.kind = "text"
    /\ shareArgs[1].sep = "End"

\* The lines that list a set of readers: one line per reader, in increasing
\* order.
ReaderLines(set) ==
    LET sorted == CHOOSE q \in [1..Cardinality(set) -> set] :
                      \A i, j \in 1..Cardinality(set) : i < j => StrLess(q[i], q[j])
    IN  [i \in 1..Cardinality(set) |->
            [kind |-> "Print", text |-> "    " \o Utf8Text(sorted[i])]]

SortedListOf(q, set) ==
    /\ { q[i] : i \in 1..Len(q) } = set
    /\ \A i, j \in 1..Len(q) : i < j => StrLess(q[i], q[j])

\* C22: whatever with_readers and add_reader calls made them, the readers()
\* of the additive and of the subtractive FileAcls list their readers
\* without duplicate and in increasing order; and a parse_acl call that adds
\* a reader to the FileAcls that already holds it returns Ok and leaves that
\* FileAcls, and its readers(), as they were.
C22_ReadersSortedAddIdempotent ==
    /\ SortedListOf(Readers(add), add)
    /\ SortedListOf(Readers(remove), remove)
    /\ \A u \in Chars \cup { <<120, 88>> } :
          /\ (acl.res.kind # "None" /\ acl.token \in { u \o <<43, 114>>, u \o <<43, 82>> }
                /\ u \in acl.add0) =>
                /\ acl.res.kind = "Ok"
                /\ add = acl.add0
                /\ Readers(add) = Readers(acl.add0)
          /\ (acl.res.kind # "None" /\ acl.token \in { u \o <<45, 114>>, u \o <<45, 82>> }
                /\ u \in acl.remove0) =>
                /\ acl.res.kind = "Ok"
                /\ remove = acl.remove0
                /\ Readers(remove) = Readers(acl.remove0)

\* C22 witness: "x+R" was parsed on an additive FileAcls that held "X" and
\* "x", and its readers() are still "X", "x".
C22_Witness ==
    /\ acl.token = <<120, 43, 82>>
    /\ acl.res.kind = "Ok"
    /\ acl.add0 = { <<120>>, <<88>> }
    /\ Readers(add) = << <<88>>, <<120>> >>

\* The targets whose scheme is the cloud scheme.
CloudUris == { "cloud://alice", "cloud://hunter2" }

\* C23: a mount of a cloud target after register_scheme("cloud", factory),
\* whose drive is built, succeeds and mounted() then holds the drive name
\* bound to that target, whether or not the name was mounted before; after
\* any sequence of mounts mounted() holds, for each drive name, the target of
\* the latest mount of that name that succeeded, and no other name.
C23_MountBindsLatest ==
    /\ DOMAIN Mounted(mounts) = DOMAIN sto.latest
    /\ \A d \in DOMAIN sto.latest : Mounted(mounts)[d] = sto.latest[d]
    /\ (sto.op = "mount" /\ sto.uri \in CloudUris /\ sto.built
            /\ "cloud" \in DOMAIN sto.schemes0)
        => /\ sto.res.kind = "Ok"
           /\ sto.name \in DOMAIN Mounted(mounts)
           /\ Mounted(mounts)[sto.name] = sto.uri
           /\ \A d \in DOMAIN sto.mounts0 :
                d # sto.name => d \in DOMAIN mounts /\ mounts[d] = sto.mounts0[d]

\* A second mount under a drive name has replaced the prior target.
C23_Witness ==
    /\ sto.op = "mount" /\ sto.res.kind = "Ok" /\ sto.name = "CLOUD"
    /\ "CLOUD" \in DOMAIN sto.mounts0 /\ sto.mounts0["CLOUD"] # sto.uri
    /\ mounts["CLOUD"] = sto.uri

\* C24: a mount whose target's scheme is not registered fails, and so does
\* one whose drive cannot be built; the failed mount leaves the mount table
\* as it was, so it binds no drive under the drive name.
C24_FailedMountBindsNothing ==
    (sto.op = "mount"
        /\ \/ sto.uri = "file://alice"
           \/ sto.uri \in CloudUris /\ "cloud" \notin DOMAIN sto.schemes0
           \/ ~sto.built)
        => /\ sto.res.kind = "IoError"
           /\ mounts = sto.mounts0
           /\ schemes = sto.schemes0

\* A mount of an unregistered scheme has failed and the name is unbound.
C24_Witness ==
    /\ sto.op = "mount" /\ sto.res.kind = "IoError" /\ sto.built
    /\ sto.uri \in CloudUris /\ sto.name \notin DOMAIN mounts

\* The drive a path names: what precedes its first colon.
DriveNamed(path) ==
    CASE path \in { "MEMORY:/A", "MEMORY:/f", "MEMORY:/A:B", "MEMORY:/" } -> "MEMORY"
      [] path \in { "CLOUD:/A", "CLOUD:/" } -> "CLOUD"
      [] path = "memory:/f" -> "memory"

\* C25: get, put, delete, enumerate, get_acls and update_acls on a path
\* whose drive name, taken up to the first colon and compared with the case
\* of its letters, is not mounted fail with a NotFound error and leave the
\* drives, the ACLs and the mount table as they were; on a path whose drive
\* is mounted the operation is the drive's.
C25_PathResolution ==
    sto.op \in { "get", "put", "delete", "enumerate", "get_acls", "update_acls" }
        => IF DriveNamed(sto.path) \notin DOMAIN sto.mounts0
           THEN /\ sto.res = DriveNotMounted
                /\ programs = sto.programs0
                /\ files = sto.files0
                /\ mounts = sto.mounts0
           ELSE sto.res # DriveNotMounted

\* A path that names the mounted drive in other letter case was refused.
C25_Witness ==
    /\ sto.op = "get" /\ sto.path = "memory:/f" /\ sto.res.kind = "NotFound"
    /\ "MEMORY" \in DOMAIN sto.mounts0

\* C26: a LOGIN that starts with the cloud scheme registered has returned the
\* InternalError of a second login, whatever its arguments are (malformed
\* ones included), and it has evaluated no argument, read nothing from the
\* console, written nothing to it and not called the service's login.
C26_DoubleLoginCheckedFirst ==
    (pc # "idle" /\ "cloud" \in DOMAIN cmd.schemes0)
        => /\ pc = "done"
           /\ result = InternalError(LoginTwiceMsg)
           /\ cmd.evals = 0
           /\ cmd.reads = 0
           /\ ~cmd.called
           /\ out = <<>>
           /\ schemes = cmd.schemes0
           /\ mounts = cmd.mounts0

\* A LOGIN with malformed arguments that followed a login has returned.
C26_Witness ==
    /\ pc = "done"
    /\ "cloud" \in DOMAIN cmd.schemes0
    /\ ArgShape(args) = "other"
    /\ result.kind = "InternalError"

\* C27: over any sequence of LOGIN commands the session registers the cloud
\* scheme at most once: the scheme is registered exactly when one
\* authentication was accepted and went on to register_scheme, and its
\* factory, with its access token, is the one that registration gave it.
C27_RegisteredAtMostOnce ==
    /\ cmd.regs <= 1
    /\ ("cloud" \in DOMAIN schemes) <=> (cmd.regs = 1)
    /\ cmd.regs = 1 => schemes["cloud"] = cmd.factory
    /\ \A s \in DOMAIN cmd.schemes0 :
            s \in DOMAIN schemes /\ schemes[s] = cmd.schemes0[s]

\* A well-formed LOGIN has returned in a session whose earlier LOGIN
\* registered the scheme and failed to mount the drive.
C27_Witness ==
    /\ pc = "done"
    /\ cmd.regs = 1
    /\ "cloud" \in DOMAIN cmd.schemes0
    /\ "CLOUD" \notin DOMAIN mounts
    /\ ArgShape(args) = "username_password"

\* C28: when a print of the MOTD fails after the service accepted the
\* credentials, LOGIN returns the error of the console, and the cloud scheme
\* is not registered and CLOUD is not mounted: the registry and the mount
\* table are as they were when LOGIN started.
C28_MotdBeforeStorage ==
    (pc = "done" /\ cmd.auth.kind = "accepted" /\ cmd.failAt > 0)
        => /\ result = FromIoError(ConsoleErrorMsg)
           /\ schemes = cmd.schemes0
           /\ mounts = cmd.mounts0
           /\ ~HasScheme(schemes, "cloud")
           /\ "CLOUD" \notin DOMAIN Mounted(mounts)

\* The last print of a MOTD of more than one line has failed.
C28_Witness ==
    /\ pc = "done"
    /\ cmd.auth.kind = "accepted"
    /\ cmd.failAt > 1
    /\ cmd.failAt = Len(MotdPrints(cmd.auth.motd))
    /\ result.kind = "IoError"

\* The entries other than name are in both maps, with the same content.
SameExcept(m, before, name) ==
    /\ (DOMAIN m) \ {name} = (DOMAIN before) \ {name}
    /\ \A n \in (DOMAIN m) \ {name} : m[n] = before[n]

\* C29: every get and every enumerate, and a get or a delete that returns
\* NotFound, leave the mapping from names to contents exactly as it was; a
\* delete(name) that succeeds and a put(name, _) change no entry other than
\* name.
C29_DriveFrame ==
    /\ ret.op \in { "get", "enumerate" } => programs = ret.before
    /\ (ret.op \in { "get", "delete" } /\ ret.res = NotFoundErr) => programs = ret.before
    /\ (ret.op = "delete" /\ ret.res = OkUnit)
        => /\ SameExcept(programs, ret.before, ret.name)
           /\ ret.name \in DOMAIN ret.before
           /\ ret.name \notin DOMAIN programs
    /\ ret.op = "put" => SameExcept(programs, ret.before, ret.name)

\* A delete has succeeded on a drive that held two other entries.
C29_Witness ==
    /\ ret.op = "delete"
    /\ ret.res = OkUnit
    /\ Cardinality(DOMAIN ret.before) = 3
    /\ Cardinality(DOMAIN programs) = 2

====
